---- MODULE Spec2Model ----
(***************************************************************************)
(* Key store of orbit-db (src/src/key-store.js): the KeyStore object       *)
(* (createKey / addKey / getKey / hasKey / clear / close / getPublic over  *)
(* a composed LRU + Level storage) and the module-level signMessage /      *)
(* verifyMessage with the process-wide verifiedCache. The calls on a       *)
(* KeyStore are modelled twice: as atomic calls, and followed from await   *)
(* to await for the calls of two callers that interleave. verifyMessage    *)
(* is followed from await to await, for one caller and for two.            *)
(*                                                                         *)
(* Encoding of JavaScript values:                                          *)
(*   - a string that is inspected character by character (hex strings,     *)
(*     message data) is a sequence of one-character strings; the empty     *)
(*     sequence is the empty string '';                                    *)
(*   - a Buffer is a sequence of bytes 0..255;                             *)
(*   - message data is a tagged record, Str(s), Buf(b) or UndefData;       *)
(*   - an id is a TLA+ string; "" is the empty string and the strings      *)
(*     UndefinedId / NullId stand for the values undefined / null;         *)
(*   - a storage key 'private_' + id is the pair of "private_" and the     *)
(*     text the id has in the concatenation.                               *)
(***************************************************************************)
EXTENDS Integers, Sequences, FiniteSets, TLC

\* ------------------------------------------------------------------ bounds

\* Private scalars the key generator can draw: 1..MaxKey.
MaxKey == 2
\* Capacity of the storage LRU (1000 in the source, scaled down so that
\* eviction happens).
StorageCacheSize == 1
\* Capacity of verifiedCache (1000 in the source, scaled down likewise).
VerifiedCacheSize == 1

\* ------------------------------------------------------- JavaScript values

Str(s) == [t |-> "string", s |-> s, b |-> <<>>]
Buf(b) == [t |-> "buffer", s |-> <<>>, b |-> b]
UndefData == [t |-> "undefined", s |-> <<>>, b |-> <<>>]

UndefinedId == "<undefined>"
NullId == "<null>"

\* JavaScript truthiness of an id: !id holds for undefined, null and ''.
\* A test of the id against undefined and null only.
FalsyIdNotEmptyString(id) == id \in {UndefinedId, NullId}

FalsyId(id) == id \in {"", UndefinedId, NullId}

\* !data: undefined and '' are falsy, every Buffer (an object) is truthy.
FalsyData(d) == d.t = "undefined" \/ (d.t = "string" /\ d.s = <<>>)

IsBuffer(d) == d.t = "buffer"

\* The replacement character U+FFFD, as one character of a string.
ReplacementChar == "U+FFFD"

\* TextEncoder / Buffer.from(string): UTF-8 bytes of one character.
Utf8OfChar(c) ==
  CASE c = "a" -> <<97>>
    [] c = "b" -> <<98>>
    [] c = ReplacementChar -> <<239, 191, 189>>
    [] OTHER -> <<63>>

RECURSIVE Utf8Encode(_)
Utf8Encode(s) ==
  IF s = <<>> THEN <<>> ELSE Utf8OfChar(Head(s)) \o Utf8Encode(Tail(s))

\* Buffer.prototype.toString(): UTF-8 decoding, an invalid byte decodes to
\* U+FFFD.
RECURSIVE Utf8Decode(_)
Utf8Decode(b) ==
  IF b = <<>> THEN <<>>
  ELSE IF Len(b) >= 3 /\ b[1] = 239 /\ b[2] = 191 /\ b[3] = 189
    THEN <<ReplacementChar>> \o Utf8Decode(SubSeq(b, 4, Len(b)))
  ELSE IF b[1] = 97 THEN <<"a">> \o Utf8Decode(Tail(b))
  ELSE IF b[1] = 98 THEN <<"b">> \o Utf8Decode(Tail(b))
  ELSE IF b[1] = 63 THEN <<"?">> \o Utf8Decode(Tail(b))
  ELSE <<ReplacementChar>> \o Utf8Decode(Tail(b))

\* Buffer.from(data) for data that is not a Buffer (a string).
BufferFrom(d) == IF IsBuffer(d) THEN d.b ELSE Utf8Encode(d.s)

\* data.toString(): a string is itself, a Buffer is decoded.
DataToString(d) == IF IsBuffer(d) THEN Utf8Decode(d.b) ELSE d.s

HexDigits ==
  <<"0", "1", "2", "3", "4", "5", "6", "7", "8", "9", "a", "b", "c", "d", "e", "f">>

HexValue(c) ==
  CASE c = "0" -> 0 [] c = "1" -> 1 [] c = "2" -> 2 [] c = "3" -> 3
    [] c = "4" -> 4 [] c = "5" -> 5 [] c = "6" -> 6 [] c = "7" -> 7
    [] c = "8" -> 8 [] c = "9" -> 9
    [] c \in {"a", "A"} -> 10 [] c \in {"b", "B"} -> 11
    [] c \in {"c", "C"} -> 12 [] c \in {"d", "D"} -> 13
    [] c \in {"e", "E"} -> 14 [] c \in {"f", "F"} -> 15
    [] OTHER -> 0 - 1

\* Buffer.prototype.toString('hex'): two lowercase digits per byte.
RECURSIVE ToHex(_)
ToHex(b) ==
  IF b = <<>> THEN <<>>
  ELSE <<HexDigits[(b[1] \div 16) + 1], HexDigits[(b[1] % 16) + 1]>> \o ToHex(Tail(b))

\* Buffer.from(string, 'hex'): decodes pairs of digits of either case and
\* stops at the first pair that is not hexadecimal; an odd last digit is
\* dropped.
RECURSIVE FromHex(_)
FromHex(s) ==
  IF Len(s) < 2 THEN <<>>
  ELSE IF HexValue(s[1]) < 0 \/ HexValue(s[2]) < 0 THEN <<>>
  ELSE <<16 * HexValue(s[1]) + HexValue(s[2])>> \o FromHex(SubSeq(s, 3, Len(s)))

\* --------------------------------------------- the cryptography primitive

\* The private keys crypto.keys.generateKeyPair('secp256k1') can return, as
\* the raw bytes keys.marshal() gives.
PrivateKeys == {<<k>> : k \in 1..MaxKey}

\* keys.public.marshal(): the public key derived from a private key.
PublicOf(priv) == <<160 + priv[1]>>

\* unmarshal / unmarshalPrivateKey: the key handle built from private bytes.
Unmarshal(bytes) == [private |-> bytes, public |-> PublicOf(bytes)]

\* keys.marshal(): the raw private bytes of a key handle.
Marshal(keys) == keys.private

\* unmarshalPubKey throws on bytes that are no public key.
ValidPublicBytes(bytes) == \E priv \in PrivateKeys : bytes = PublicOf(priv)

\* key.sign(data): deterministic, and injective in (key, message) as an
\* unforgeable scheme is up to negligible probability.
KeySign(priv, msg) == <<priv[1]>> \o msg

\* key.verify(msg, sig) throws on a signature it cannot parse.
SigParses(sig) == Len(sig) >= 1

\* key.verify(msg, sig) on a signature that parses.
KeyVerify(pub, msg, sig) ==
  /\ <<sig[1]>> \in PrivateKeys
  /\ PublicOf(<<sig[1]>>) = pub
  /\ Tail(sig) = msg


\* try { unmarshalPubKey(...); key.verify(...) } catch { } of verifySignature:
\* the result is false when either call throws.
IsValid(pub, msg, sig) ==
  /\ ValidPublicBytes(pub)
  /\ SigParses(sig)
  /\ KeyVerify(pub, msg, sig)

\* ------------------------------------------------------ results of a call

Returned(b) == [ret |-> "bool", bool |-> b, msg |-> ""]
Thrown(m) == [ret |-> "throw", bool |-> FALSE, msg |-> m]

NoKeys == [private |-> <<>>, public |-> <<>>]

\* The record of the last call: its arguments and its outcome. ret is "bool"
\* (bool holds the value), "keys" (keys holds the key handle), "value" (out
\* holds the string or Buffer), "undefined", "throw" (msg holds the error
\* message) or "none" (no call yet). keys is also the key argument of
\* signMessage, getPublic and addKey, format the format option of getPublic.
\* A verifyMessage call is recorded when it returns: hit and crypto say
\* whether it found a cache entry and whether it called verifySignature;
\* fault says that storage.get threw in the call.
NoCall ==
  [op |-> "none", id |-> "", signature |-> <<>>, publicKey |-> <<>>,
   data |-> UndefData, ret |-> "none", bool |-> FALSE, keys |-> NoKeys,
   msg |-> "", hit |-> FALSE, crypto |-> FALSE, fault |-> FALSE,
   format |-> "", out |-> UndefData]

\* ------------------------------------------------------------ LRUStorage

\* An LRU is a sequence of entries [k, v], least recently used first.
LRUHas(c, k) == \E i \in 1..Len(c) : c[i].k = k

LRUValue(c, k) == (CHOOSE e \in {c[i] : i \in 1..Len(c)} : e.k = k).v

LRUWithout(c, k) == SelectSeq(c, LAMBDA e : e.k # k)

\* get(k) promotes the entry to most recently used.
LRUTouch(c, k) ==
  IF LRUHas(c, k) THEN Append(LRUWithout(c, k), [k |-> k, v |-> LRUValue(c, k)]) ELSE c

\* put(k, v) makes the entry the most recently used one and evicts the
\* least recently used entry beyond the capacity.
LRUPut(c, k, v, size) ==
  LET added == Append(LRUWithout(c, k), [k |-> k, v |-> v])
  IN IF Len(added) > size THEN Tail(added) ELSE added

\* ------------------------------------------------------- storage of keys

Ids == {"key1", "key2"}
IdInputs == Ids \cup {"", UndefinedId, NullId}

\* 'private_' with the id left out.
StorageKeyWithoutId(id) == <<"private_", "">>

\* The key argument of addKey: publicKey and privateKey are the bytes of two
\* Buffers. NoKey stands for a key that is undefined.
NoKey == [publicKey |-> <<>>, privateKey |-> <<>>]

\* The text an id has in a string concatenation: undefined and null are
\* written out, a string is itself.
IdText(id) ==
  IF id = UndefinedId THEN "undefined" ELSE IF id = NullId THEN "null" ELSE id

\* 'private_' + id
StorageKey(id) == <<"private_", IdText(id)>>

\* The texts of the ids in the keys of the storage.
IdTexts == {IdText(id) : id \in IdInputs}

VARIABLES
  lru,            \* Cache Tier of the composed storage
  level,          \* Persistent Tier: a function from the stored keys to bytes
  verifiedCache,  \* the module's verifiedCache
  last,           \* the last call and its outcome
  created,        \* history: id -> private bytes of the key createKey stored
                  \* last and clear has not removed since, <<>> if none
  everCreated,    \* history: the ids createKey has ever stored a key for
  replaced,       \* history: id -> the bytes that the last createKey(id)
                  \* overwrote (what was stored under 'private_' + id,
                  \* by createKey or addKey), <<>> if none or cleared since
  gets,           \* history: id -> the getKey results since the last
                  \* createKey(id) or clear, the latest two at most, each
                  \* with the value written[id] had at the call
  written,        \* history: text of an id -> private bytes of the key
                  \* createKey or addKey stored last under 'private_' +
                  \* that text, <<>> if none or if clear ran since
  closed,         \* close() has been called
  verifying,      \* caller -> the call of verifyMessage it has in flight,
                  \* if any
  calls           \* caller -> the call it has in flight or has completed,
                  \* when calls are followed from await to await

vars ==
  <<lru, level, verifiedCache, last, created, everCreated, replaced, gets,
    written, closed, verifying, calls>>

\* ComposedStorage.get: the Cache Tier first, the Persistent Tier on a miss,
\* whose value is then put in the Cache Tier. found is FALSE for undefined.
\* readFails says that the read of the Persistent Tier, when the call gets
\* to it, throws; threw says that the call threw.
ComposedGet(k, readFails) ==
  IF LRUHas(lru, k)
    THEN [threw |-> FALSE, found |-> TRUE, value |-> LRUValue(lru, k),
          lru |-> LRUTouch(lru, k)]
  ELSE IF readFails
    THEN [threw |-> TRUE, found |-> FALSE, value |-> <<>>, lru |-> lru]
  ELSE IF k \in DOMAIN level
    THEN [threw |-> FALSE, found |-> TRUE, value |-> level[k],
          lru |-> LRUPut(lru, k, level[k], StorageCacheSize)]
  ELSE [threw |-> FALSE, found |-> FALSE, value |-> <<>>, lru |-> lru]

\* ComposedStorage.put: the Persistent Tier, then the Cache Tier.
LevelPut(k, v) == [x \in DOMAIN level \cup {k} |-> IF x = k THEN v ELSE level[x]]

ComposedPut(k, v) ==
  /\ level' = LevelPut(k, v)
  /\ lru' = LRUPut(lru, k, v, StorageCacheSize)

\* ComposedStorage.clear
ComposedClear ==
  /\ level' = [x \in {} |-> <<>>]
  /\ lru' = <<>>


\* ------------------------------------------------------------- KeyStore

\* The latest two results of getKey(id), r the newest.
Remember(history, r) ==
  IF Len(history) < 2 THEN Append(history, r) ELSE <<history[2], r>>

\* addKey storing the pair under 'public_' + id.
AddKeyUnderPublic(id, key) == ComposedPut(<<"public_", id>>, key.privateKey)

\* addKey storing the public key of the pair.
AddKeyStoresPublic(id, key) == ComposedPut(StorageKey(id), key.publicKey)

\* addKey keeping the record an id has already.
AddKeyKeepsExisting(id, key) ==
  IF StorageKey(id) \in DOMAIN level
    THEN UNCHANGED <<lru, level>>
    ELSE ComposedPut(StorageKey(id), key.privateKey)

\* addKey: stores the private key of the pair under 'private_' + id.
AddKey(id, key) == ComposedPut(StorageKey(id), key.privateKey)

\* addKey(id, key) called on the KeyStore: the id is not checked, and a key
\* that is undefined has no privateKey to read.
AddKeyCall(id, key) ==
  /\ ~closed
  /\ UNCHANGED <<closed, verifying, calls>>
  /\ IF key = NoKey
    THEN /\ last' = [NoCall EXCEPT !.op = "addKey", !.id = id, !.ret = "throw",
                                   !.msg = "TypeError"]
         /\ UNCHANGED <<lru, level, verifiedCache, created, everCreated,
                        replaced, gets, written>>
    ELSE /\ AddKey(id, key)
         /\ last' = [NoCall EXCEPT !.op = "addKey", !.id = id, !.ret = "undefined",
                                   !.keys = [private |-> key.privateKey,
                                             public |-> key.publicKey]]
         /\ written' = [written EXCEPT ![IdText(id)] = key.privateKey]
         /\ UNCHANGED <<verifiedCache, created, everCreated, replaced, gets>>

\* The bytes the Persistent Tier holds under 'private_' + id, <<>> if none.
Stored(id) ==
  IF StorageKey(id) \in DOMAIN level THEN level[StorageKey(id)] ELSE <<>>

\* createKey(id), priv being the private key generateKeyPair draws.
CreateKey(id, priv) ==
  /\ ~closed
  /\ UNCHANGED <<closed, verifying, calls>>
  /\ IF FalsyId(id)
    THEN /\ last' = [NoCall EXCEPT !.op = "createKey", !.id = id, !.ret = "throw",
                                   !.msg = "id needed to create a key"]
         /\ UNCHANGED <<lru, level, verifiedCache, created, everCreated,
                        replaced, gets, written>>
    ELSE LET keys == Unmarshal(priv)
             key == [publicKey |-> keys.public, privateKey |-> Marshal(keys)]
         IN /\ AddKey(id, key)
            /\ last' = [NoCall EXCEPT !.op = "createKey", !.id = id, !.ret = "keys",
                                      !.keys = keys]
            /\ created' = [created EXCEPT ![id] = Marshal(keys)]
            /\ everCreated' = everCreated \cup {id}
            /\ replaced' = [replaced EXCEPT ![id] = Stored(id)]
            /\ gets' = [gets EXCEPT ![id] = <<>>]
            /\ written' = [written EXCEPT ![id] = Marshal(keys)]
            /\ UNCHANGED verifiedCache

\* hasKey without the try / catch around storage.get.
HasKeyResultRethrows(threw, found) ==
  IF threw THEN Thrown("storage read failed") ELSE Returned(found)

\* The try / catch of hasKey and its result: threw says that storage.get
\* threw, found that it returned a value that is not undefined or null.
HasKeyResult(threw, found) ==
  IF threw THEN Returned(FALSE) ELSE Returned(found)

\* hasKey(id); readFails says that a read of the Persistent Tier throws.
HasKeyCall(id, readFails) ==
  /\ ~closed
  /\ UNCHANGED <<closed, verifying, calls>>
  /\ IF FalsyId(id)
    THEN /\ last' = [NoCall EXCEPT !.op = "hasKey", !.id = id, !.ret = "throw",
                                   !.msg = "id needed to check a key"]
         /\ UNCHANGED <<lru, level, verifiedCache, created, everCreated,
                        replaced, gets, written>>
    ELSE LET got == ComposedGet(StorageKey(id), readFails)
             r == HasKeyResult(got.threw, got.found)
         IN /\ lru' = got.lru
            /\ last' = [NoCall EXCEPT !.op = "hasKey", !.id = id, !.ret = r.ret,
                                      !.bool = r.bool, !.msg = r.msg,
                                      !.fault = got.threw]
            /\ UNCHANGED <<level, verifiedCache, created, everCreated, replaced,
                           gets, written>>

\* getKey without the return on a missing storedKey: unmarshal(undefined)
\* throws.
GetKeyResultNoGuard(threw, found, value) ==
  IF threw \/ ~found THEN [ret |-> "throw", keys |-> NoKeys, msg |-> "TypeError"]
  ELSE [ret |-> "keys", keys |-> Unmarshal(value), msg |-> ""]

\* The try / catch of getKey and its result: undefined when storage.get
\* threw or returned nothing, and the key handle of the stored bytes if not.
GetKeyResult(threw, found, value) ==
  IF threw \/ ~found THEN [ret |-> "undefined", keys |-> NoKeys, msg |-> ""]
  ELSE [ret |-> "keys", keys |-> Unmarshal(value), msg |-> ""]

\* getKey(id); readFails says that a read of the Persistent Tier throws.
GetKeyCall(id, readFails) ==
  /\ ~closed
  /\ UNCHANGED <<closed, verifying, calls>>
  /\ IF FalsyId(id)
    THEN /\ last' = [NoCall EXCEPT !.op = "getKey", !.id = id, !.ret = "throw",
                                   !.msg = "id needed to get a key"]
         /\ UNCHANGED <<lru, level, verifiedCache, created, everCreated,
                        replaced, gets, written>>
    ELSE LET got == ComposedGet(StorageKey(id), readFails)
             r == GetKeyResult(got.threw, got.found, got.value)
         IN /\ lru' = got.lru
            /\ last' = [NoCall EXCEPT !.op = "getKey", !.id = id, !.ret = r.ret,
                                      !.keys = r.keys, !.msg = r.msg,
                                      !.fault = got.threw]
            /\ gets' = [gets EXCEPT ![id] =
                          Remember(gets[id], [ret |-> r.ret, keys |-> r.keys,
                                              written |-> written[id]])]
            /\ UNCHANGED <<level, verifiedCache, created, everCreated, replaced,
                           written>>

HasKey(id) == HasKeyCall(id, FALSE)
GetKey(id) == GetKeyCall(id, FALSE)

\* hasKey / getKey while the reads of the Persistent Tier fail.
HasKeyStorageFails(id) == HasKeyCall(id, TRUE)
GetKeyStorageFails(id) == GetKeyCall(id, TRUE)

\* clear() that does not reach the storage.
ClearWithoutStorage ==
  /\ ~closed
  /\ UNCHANGED <<closed, verifying, calls>>
  /\ last' = [NoCall EXCEPT !.op = "clear", !.ret = "undefined"]
  /\ created' = [id \in Ids |-> <<>>]
  /\ replaced' = [id \in Ids |-> <<>>]
  /\ gets' = [id \in Ids |-> <<>>]
  /\ written' = [text \in IdTexts |-> <<>>]
  /\ UNCHANGED <<lru, level, verifiedCache, everCreated>>

\* clear() that empties the module's verifiedCache as well.
ClearAlsoVerifiedCache ==
  /\ ~closed
  /\ UNCHANGED <<closed, verifying, calls>>
  /\ ComposedClear
  /\ verifiedCache' = <<>>
  /\ last' = [NoCall EXCEPT !.op = "clear", !.ret = "undefined"]
  /\ created' = [id \in Ids |-> <<>>]
  /\ replaced' = [id \in Ids |-> <<>>]
  /\ gets' = [id \in Ids |-> <<>>]
  /\ written' = [text \in IdTexts |-> <<>>]
  /\ UNCHANGED <<everCreated>>

\* clear()
Clear ==
  /\ ~closed
  /\ UNCHANGED <<closed, verifying, calls>>
  /\ ComposedClear
  /\ last' = [NoCall EXCEPT !.op = "clear", !.ret = "undefined"]
  /\ created' = [id \in Ids |-> <<>>]
  /\ replaced' = [id \in Ids |-> <<>>]
  /\ gets' = [id \in Ids |-> <<>>]
  /\ written' = [text \in IdTexts |-> <<>>]
  /\ UNCHANGED <<verifiedCache, everCreated>>

\* close(): storage.close() closes both tiers; the calls after it are not
\* defined, and none is made.
Close ==
  /\ ~closed
  /\ closed' = TRUE
  /\ last' = [NoCall EXCEPT !.op = "close", !.ret = "undefined"]
  /\ UNCHANGED <<verifying, lru, level, verifiedCache, created, everCreated, replaced,
                 gets, written, calls>>

\* The format option when it is undefined.
UndefinedFormat == "<undefined>"

\* options.format || 'hex': undefined and '' are falsy.
FormatOrDefault(format) == IF format \in {"", UndefinedFormat} THEN "hex" ELSE format

\* getPublic without the check of the format.
GetPublicResultAnyFormat(keys, format) ==
  IF keys = NoKeys THEN [ret |-> "throw", msg |-> "TypeError", out |-> UndefData]
  ELSE [ret |-> "value", msg |-> "",
        out |-> IF FormatOrDefault(format) = "buffer" THEN Buf(keys.public)
                ELSE Str(ToHex(keys.public))]

\* getPublic(keys, { format }); NoKeys stands for keys that are undefined. The
\* message of the error is written here without the grave accents it has
\* around hex and buffer.
GetPublicResult(keys, format) ==
  IF FormatOrDefault(format) \notin {"hex", "buffer"}
    THEN [ret |-> "throw", msg |-> "Supported formats are hex and buffer",
          out |-> UndefData]
  ELSE IF keys = NoKeys THEN [ret |-> "throw", msg |-> "TypeError", out |-> UndefData]
  ELSE [ret |-> "value", msg |-> "",
        out |-> IF FormatOrDefault(format) = "buffer" THEN Buf(keys.public)
                ELSE Str(ToHex(keys.public))]

GetPublic(keys, format) ==
  LET r == GetPublicResult(keys, format)
  IN /\ last' = [NoCall EXCEPT !.op = "getPublic", !.keys = keys, !.format = format,
                               !.ret = r.ret, !.msg = r.msg, !.out = r.out]
     /\ UNCHANGED <<lru, level, verifiedCache, created, everCreated, replaced,
                    gets, written, closed, verifying, calls>>

\* ------------------------------------------------- verifying signatures

\* verifySignature with res initialised to true: an exception of the
\* primitive leaves it true.
VerifySignatureCatchTrue(signature, publicKey, data) ==
  IF signature = <<>> THEN Thrown("No signature given")
  ELSE IF publicKey = <<>> THEN Thrown("Given publicKey was undefined")
  ELSE IF FalsyData(data) THEN Thrown("Given input data was undefined")
  ELSE LET pub == FromHex(publicKey)
           sig == FromHex(signature)
       IN Returned(IF ValidPublicBytes(pub) /\ SigParses(sig)
                     THEN KeyVerify(pub, BufferFrom(data), sig) ELSE TRUE)

\* verifySignature(signature, publicKey, data)
VerifySignature(signature, publicKey, data) ==
  IF signature = <<>> THEN Thrown("No signature given")
  ELSE IF publicKey = <<>> THEN Thrown("Given publicKey was undefined")
  ELSE IF FalsyData(data) THEN Thrown("Given input data was undefined")
  ELSE Returned(IsValid(FromHex(publicKey), BufferFrom(data), FromHex(signature)))

\* compare(cached, data) of verifyMessage. Buffer.compare throws a TypeError
\* when cached is no Buffer, and data.toString() when data is undefined.
Compare(cached, data) ==
  IF IsBuffer(data)
    THEN IF IsBuffer(cached) THEN Returned(cached.b = data.b)
         ELSE Thrown("TypeError")
  ELSE IF data.t = "undefined" THEN Thrown("TypeError")
  ELSE Returned(DataToString(cached) = data.s)

\* The cache-hit branch without the comparison of the public keys.
VerifyCachedIgnoresKey(cached, publicKey, data) == Compare(cached.data, data)

\* The cache-hit branch of verifyMessage:
\* cached.publicKey === publicKey && compare(cached.data, data)
VerifyCached(cached, publicKey, data) ==
  IF cached.publicKey = publicKey THEN Compare(cached.data, data) ELSE Returned(FALSE)

\* verifyMessage suspends at verifiedCache.get, at verifySignature and at
\* verifiedCache.put: the calls of several callers interleave between the
\* read of verifiedCache and its write.

\* The callers whose calls interleave.
Callers == {"caller1", "caller2"}

NoEntry == [publicKey |-> <<>>, data |-> UndefData]

\* A caller that has made no call of verifyMessage. pc is the step the call
\* is at: "idle", "got" (verifiedCache.get has returned) or "put"
\* (verifySignature has returned true and verifiedCache.put has been called
\* and has written, the call waiting for it). found and cached are what
\* verifiedCache.get returned.
IdleVerify ==
  [pc |-> "idle", signature |-> <<>>, publicKey |-> <<>>, data |-> UndefData,
   found |-> FALSE, cached |-> NoEntry]

Verifying(c) == verifying[c].pc # "idle"

\* verifyMessage(signature, publicKey, data) is called by caller c:
\* verifiedCache.get(signature), which promotes the entry it finds.
VerifyMessageStart(c, signature, publicKey, data) ==
  /\ ~Verifying(c)
  /\ verifying' =
       [verifying EXCEPT ![c] =
          [pc |-> "got", signature |-> signature, publicKey |-> publicKey,
           data |-> data, found |-> LRUHas(verifiedCache, signature),
           cached |-> IF LRUHas(verifiedCache, signature)
                        THEN LRUValue(verifiedCache, signature) ELSE NoEntry]]
  /\ verifiedCache' = LRUTouch(verifiedCache, signature)
  /\ UNCHANGED <<lru, level, last, created, everCreated, replaced, gets, written,
                 closed, calls>>

\* The verifyMessage of caller c returns or throws r.
VerifyReturns(c, r) ==
  /\ verifying' = [verifying EXCEPT ![c] = IdleVerify]
  /\ last' = [NoCall EXCEPT !.op = "verifyMessage",
                            !.signature = verifying[c].signature,
                            !.publicKey = verifying[c].publicKey,
                            !.data = verifying[c].data,
                            !.ret = r.ret, !.bool = r.bool, !.msg = r.msg,
                            !.hit = verifying[c].found,
                            !.crypto = ~verifying[c].found]

\* Nothing was cached: verifySignature. When it returns true the call goes
\* on, in the same continuation, to verifiedCache.put(signature,
\* { publicKey, data }), which writes the entry, and waits for it; when not,
\* the call returns false or throws.
VerifySignatureStep(c) ==
  /\ verifying[c].pc = "got"
  /\ ~verifying[c].found
  /\ IF VerifySignature(verifying[c].signature, verifying[c].publicKey,
                        verifying[c].data) = Returned(TRUE)
       THEN /\ verifying' = [verifying EXCEPT ![c].pc = "put"]
            /\ verifiedCache' =
                 LRUPut(verifiedCache, verifying[c].signature,
                        [publicKey |-> verifying[c].publicKey,
                         data |-> verifying[c].data],
                        VerifiedCacheSize)
            /\ last' = last
       ELSE /\ VerifyReturns(c, VerifySignature(verifying[c].signature,
                                                verifying[c].publicKey,
                                                verifying[c].data))
            /\ verifiedCache' = verifiedCache
  /\ UNCHANGED <<lru, level, created, everCreated, replaced, gets,
                 written, closed, calls>>

\* verifiedCache.put has returned: the call returns true. The entry has
\* been in verifiedCache since the put was called.
VerifyPutStep(c) ==
  /\ verifying[c].pc = "put"
  /\ VerifyReturns(c, Returned(TRUE))
  /\ UNCHANGED <<lru, level, verifiedCache, created, everCreated, replaced,
                 gets, written, closed, calls>>

\* An entry was cached: the call returns the comparison with it.
VerifyCachedStep(c) ==
  /\ verifying[c].pc = "got"
  /\ verifying[c].found
  /\ VerifyReturns(c, VerifyCached(verifying[c].cached, verifying[c].publicKey,
                                   verifying[c].data))
  /\ UNCHANGED <<lru, level, verifiedCache, created, everCreated, replaced, gets,
                 written, closed, calls>>

\* signMessage(key, data); NoKeys stands for a key that is null.
SignMessageResult(key, data) ==
  IF key = NoKeys
    THEN [ret |-> "throw", msg |-> "No signing key given", out |-> UndefData]
  ELSE IF FalsyData(data)
    THEN [ret |-> "throw", msg |-> "Given input data was undefined", out |-> UndefData]
  ELSE [ret |-> "value", msg |-> "",
        out |-> Str(ToHex(KeySign(Marshal(key), BufferFrom(data))))]

SignMessage(key, data) ==
  LET r == SignMessageResult(key, data)
  IN /\ last' = [NoCall EXCEPT !.op = "signMessage", !.keys = key, !.data = data,
                               !.ret = r.ret, !.msg = r.msg, !.out = r.out]
     /\ UNCHANGED <<lru, level, verifiedCache, created, everCreated, replaced,
                    gets, written, closed, verifying, calls>>

\* ------------------------------------- calls followed from await to await

\* Every function of a KeyStore is async and suspends at each call of a
\* tier, so the calls of several callers interleave at the steps of
\* ComposedStorage: put is a write of the Persistent Tier and then one of the
\* Cache Tier, get a read of the Cache Tier, on a miss a read of the
\* Persistent Tier, and when that finds a value a write of the Cache Tier;
\* clear empties the two tiers one after the other, in an order that is not
\* given. Each step on one tier is atomic.

\* A caller that has made no call. pc is the step the call is at: "idle",
\* "put-level", "put-cache", "get-cache", "get-level", "get-fill", "clear-1",
\* "clear-2" or "done". key and value are the arguments of storage.put or
\* the argument and the result of storage.get, found says that the result is
\* a value, first is the tier clear empties first, priv the private bytes of
\* the key handle createKey returns. conc (history) holds the
\* callers whose present call overlaps this one, snap (history) the ids
\* whose createKey had completed, none being in flight, when clear was issued
\* and for which no createKey or addKey was issued since.
IdleCall ==
  [op |-> "none", id |-> "", key |-> <<"", "">>, value |-> <<>>, pc |-> "idle",
   found |-> FALSE, first |-> "", priv |-> <<>>, conc |-> {}, snap |-> {}]

InFlight(c) == calls[c].pc \notin {"idle", "done"}

\* Caller c issues call; creating holds the id when the call is createKey
\* or addKey.
Begin(c, call, creating) ==
  /\ ~closed
  /\ ~InFlight(c)
  /\ calls' = [d \in Callers |->
                 IF d = c
                   THEN [call EXCEPT !.conc = {e \in Callers \ {c} : InFlight(e)}]
                 ELSE [calls[d] EXCEPT !.conc = @ \ {c}, !.snap = @ \ creating]]
  /\ UNCHANGED <<lru, level, verifiedCache, last, created, everCreated,
                 replaced, gets, written, closed, verifying>>

\* The call of caller c moves to the step pc.
Goto(c, pc) == calls' = [calls EXCEPT ![c].pc = pc]

\* The storage.get of caller c returns: value when found, undefined if not.
GetReturns(c, found, value) ==
  calls' = [calls EXCEPT ![c].pc = "done", ![c].found = found, ![c].value = value]

\* addKey that writes the Cache Tier alone.
AddKeyToCacheOnly(id, key) ==
  [IdleCall EXCEPT !.op = "addKey", !.id = id, !.key = StorageKey(id),
                   !.value = key.privateKey, !.pc = "put-cache"]

\* addKey that stores the public key of the pair.
AddKeyPutsPublic(id, key) ==
  [IdleCall EXCEPT !.op = "addKey", !.id = id, !.key = StorageKey(id),
                   !.value = key.publicKey, !.pc = "put-level"]

\* addKey(id, key): storage.put('private_' + id, key.privateKey), which
\* starts at the write of the Persistent Tier.
AddKeyPut(id, key) ==
  [IdleCall EXCEPT !.op = "addKey", !.id = id, !.key = StorageKey(id),
                   !.value = key.privateKey, !.pc = "put-level"]

\* createKey(id) is issued, for an id that is present (CreateKey has the
\* other ids); priv is the private key generateKeyPair draws.
CreateKeyStart(c, id, priv) ==
  LET keys == Unmarshal(priv)
      key == [publicKey |-> keys.public, privateKey |-> Marshal(keys)]
  IN Begin(c, [AddKeyPut(id, key) EXCEPT !.op = "createKey",
                                         !.priv = Marshal(keys)], {id})

\* addKey(id, key) is issued, for a key that is not undefined.
AddKeyStart(c, id, key) == Begin(c, AddKeyPut(id, key), {id} \cap Ids)

\* hasKey(id) is issued: storage.get('private_' + id).
HasKeyStart(c, id) ==
  Begin(c, [IdleCall EXCEPT !.op = "hasKey", !.id = id, !.key = StorageKey(id),
                            !.pc = "get-cache"], {})

\* getKey(id) is issued: storage.get('private_' + id).
GetKeyStart(c, id) ==
  Begin(c, [IdleCall EXCEPT !.op = "getKey", !.id = id, !.key = StorageKey(id),
                            !.pc = "get-cache"], {})

\* The ids clear() removes for good: their createKey has completed and no
\* createKey or addKey for them is in flight.
ClearSnapshot ==
  everCreated \ {calls[d].id : d \in {e \in Callers :
                                         /\ InFlight(e)
                                         /\ calls[e].op \in {"createKey", "addKey"}}}

\* clear() that does not reach the storage.
ClearStartWithoutStorage(c, first) ==
  Begin(c, [IdleCall EXCEPT !.op = "clear", !.pc = "done", !.first = first,
                            !.snap = ClearSnapshot], {})

\* clear() is issued: storage.clear(), which empties the tier first and then
\* the other one.
ClearStart(c, first) ==
  Begin(c, [IdleCall EXCEPT !.op = "clear", !.pc = "clear-1", !.first = first,
                            !.snap = ClearSnapshot], {})

\* put, first step: the write of the Persistent Tier.
PutLevelStep(c) ==
  /\ calls[c].pc = "put-level"
  /\ level' = LevelPut(calls[c].key, calls[c].value)
  /\ Goto(c, "put-cache")
  /\ UNCHANGED <<lru, verifiedCache, last, created, everCreated, replaced, gets,
                 written, closed, verifying>>

\* put, second step: the write of the Cache Tier; createKey or addKey
\* returns.
PutCacheStep(c) ==
  /\ calls[c].pc = "put-cache"
  /\ lru' = LRUPut(lru, calls[c].key, calls[c].value, StorageCacheSize)
  /\ Goto(c, "done")
  /\ everCreated' = IF calls[c].op = "createKey"
                      THEN everCreated \cup {calls[c].id} ELSE everCreated
  /\ UNCHANGED <<level, verifiedCache, last, created, replaced, gets, written,
                 closed, verifying>>

\* get, first step: the read of the Cache Tier; a hit returns the value.
GetCacheStep(c) ==
  /\ calls[c].pc = "get-cache"
  /\ IF LRUHas(lru, calls[c].key)
       THEN /\ lru' = LRUTouch(lru, calls[c].key)
            /\ GetReturns(c, TRUE, LRUValue(lru, calls[c].key))
       ELSE /\ lru' = lru
            /\ Goto(c, "get-level")
  /\ UNCHANGED <<level, verifiedCache, last, created, everCreated, replaced,
                 gets, written, closed, verifying>>

\* get, second step: the read of the Persistent Tier; nothing found returns
\* undefined.
GetLevelStep(c) ==
  /\ calls[c].pc = "get-level"
  /\ IF calls[c].key \in DOMAIN level
       THEN calls' = [calls EXCEPT ![c].pc = "get-fill", ![c].found = TRUE,
                                   ![c].value = level[calls[c].key]]
       ELSE GetReturns(c, FALSE, <<>>)
  /\ UNCHANGED <<lru, level, verifiedCache, last, created, everCreated,
                 replaced, gets, written, closed, verifying>>

\* get, third step: the value read is put in the Cache Tier and returned.
GetFillStep(c) ==
  /\ calls[c].pc = "get-fill"
  /\ lru' = LRUPut(lru, calls[c].key, calls[c].value, StorageCacheSize)
  /\ Goto(c, "done")
  /\ UNCHANGED <<level, verifiedCache, last, created, everCreated, replaced,
                 gets, written, closed, verifying>>

\* One tier is emptied.
EmptyTier(tier) ==
  IF tier = "cache" THEN lru' = <<>> /\ level' = level
  ELSE level' = [x \in {} |-> <<>>] /\ lru' = lru

OtherTier(tier) == IF tier = "cache" THEN "level" ELSE "cache"

\* clear, first step.
ClearFirstStep(c) ==
  /\ calls[c].pc = "clear-1"
  /\ EmptyTier(calls[c].first)
  /\ Goto(c, "clear-2")
  /\ UNCHANGED <<verifiedCache, last, created, everCreated, replaced, gets,
                 written, closed, verifying>>

\* clear, second step; clear returns.
ClearSecondStep(c) ==
  /\ calls[c].pc = "clear-2"
  /\ EmptyTier(OtherTier(calls[c].first))
  /\ Goto(c, "done")
  /\ UNCHANGED <<verifiedCache, last, created, everCreated, replaced, gets,
                 written, closed, verifying>>

\* What the completed hasKey(id) of caller c returned.
HasKeyReturned(c) == HasKeyResult(FALSE, calls[c].found)

\* What the completed getKey(id) of caller c returned.
GetKeyReturned(c) == GetKeyResult(FALSE, calls[c].found, calls[c].value)

\* ------------------------------------------------------------- the inputs

SignedMessages == {<<97>>, <<255>>}

\* Signatures made by signMessage, the malformed one of the tests, and a
\* signature followed by characters that are not hexadecimal.
Signatures ==
  {ToHex(KeySign(priv, m)) : priv \in PrivateKeys, m \in SignedMessages}
    \cup {<<"x", "x", "x", "x", "x", "x">>}
    \cup {ToHex(KeySign(<<1>>, <<97>>)) \o <<"z", "z">>}

\* getPublic(keys) of every key, and one of them in upper case.
PublicKeys == {ToHex(PublicOf(priv)) : priv \in PrivateKeys} \cup {<<"A", "1">>}

\* 'a' and the same bytes as a Buffer; a Buffer that is not valid UTF-8 and
\* the string it decodes to.
Datas == {Str(<<"a">>), Buf(<<97>>), Buf(<<255>>), Str(<<ReplacementChar>>)}

\* Calls with a missing argument: no signature, no publicKey, data that is
\* undefined or ''.
FalsyCalls ==
  LET signature == ToHex(KeySign(<<1>>, <<97>>))
      publicKey == ToHex(PublicOf(<<1>>))
  IN {<<<<>>, publicKey, Str(<<"a">>)>>,
      <<signature, <<>>, Str(<<"a">>)>>,
      <<signature, publicKey, UndefData>>,
      <<signature, publicKey, Str(<<>>)>>}

VerifyInputs == (Signatures \X PublicKeys \X Datas) \cup FalsyCalls

\* The key handles getKey and createKey return, and no key.
KeyInputs == {Unmarshal(priv) : priv \in PrivateKeys} \cup {NoKeys}

\* signMessage with every key and data, and with a missing argument.
SignInputs ==
  ((KeyInputs \ {NoKeys}) \X Datas)
    \cup {<<NoKeys, Str(<<"a">>)>>, <<Unmarshal(<<1>>), UndefData>>}

\* The calls of verifyMessage that interleave: a signature with its key in
\* lower and in upper case and with another key, the data as a string and
\* as a Buffer; the signature of another key, and the malformed one.
InterleavedVerifyInputs ==
  ({ToHex(KeySign(<<1>>, <<97>>))}
     \X {ToHex(PublicOf(<<1>>)), <<"A", "1">>, ToHex(PublicOf(<<2>>))}
     \X {Str(<<"a">>), Buf(<<97>>)})
    \cup {<<ToHex(KeySign(<<2>>, <<97>>)), ToHex(PublicOf(<<2>>)), Buf(<<97>>)>>,
          <<<<"x", "x", "x", "x", "x", "x">>, ToHex(PublicOf(<<1>>)), Str(<<"a">>)>>}

\* A few of the calls of verifyMessage and signMessage, for the calls on a
\* KeyStore and on the module's functions taken together: a signature with
\* its key and with another one, and the malformed signature.
FewVerifyInputs ==
  LET signature == ToHex(KeySign(<<1>>, <<97>>))
  IN {<<signature, ToHex(PublicOf(<<1>>)), Buf(<<97>>)>>,
      <<signature, ToHex(PublicOf(<<2>>)), Buf(<<97>>)>>,
      <<<<"x", "x", "x", "x", "x", "x">>, ToHex(PublicOf(<<1>>)), Str(<<"a">>)>>}

FewSignInputs == {<<Unmarshal(<<1>>), Buf(<<97>>)>>, <<NoKeys, Str(<<"a">>)>>}

\* The keys addKey is called with: the pair of the first private key, and
\* no key.
AddKeyInputs ==
  {[publicKey |-> PublicOf(<<1>>), privateKey |-> <<1>>], NoKey}

\* The ids addKey is called with: one of the ids of the keys, and none.
AddKeyIds == {"key2", UndefinedId}

\* The ids hasKey is called with: the ids of the keys, the missing ones, and
\* the text of undefined.
HasKeyInputs == IdInputs \cup {"undefined"}

\* The formats of the tests, '' and no format.
FormatInputs == {"hex", "buffer", "foo", "", UndefinedFormat}

\* ------------------------------------------------------ the specification

Init ==
  /\ lru = <<>>
  /\ level = [x \in {} |-> <<>>]
  /\ verifiedCache = <<>>
  /\ last = NoCall
  /\ created = [id \in Ids |-> <<>>]
  /\ everCreated = {}
  /\ replaced = [id \in Ids |-> <<>>]
  /\ gets = [id \in Ids |-> <<>>]
  /\ written = [text \in IdTexts |-> <<>>]
  /\ closed = FALSE
  /\ verifying = [c \in Callers |-> IdleVerify]
  /\ calls = [c \in Callers |-> IdleCall]

\* The calls on a KeyStore instance.
KeyStoreNext ==
  \/ \E id \in IdInputs, priv \in PrivateKeys : CreateKey(id, priv)
  \/ \E id \in AddKeyIds, key \in AddKeyInputs : AddKeyCall(id, key)
  \/ \E id \in HasKeyInputs : HasKey(id)
  \/ \E id \in IdInputs : GetKey(id)
  \/ Clear
  \/ Close
  \/ \E keys \in KeyInputs, format \in FormatInputs : GetPublic(keys, format)

\* The steps of the verifyMessage calls of caller c.
VerifyCallNext(c, inputs) ==
  \/ \E call \in inputs : VerifyMessageStart(c, call[1], call[2], call[3])
  \/ VerifySignatureStep(c)
  \/ VerifyPutStep(c)
  \/ VerifyCachedStep(c)

\* The calls on the module's functions, made one at a time.
VerifyNext ==
  \/ VerifyCallNext("caller1", VerifyInputs)
  \/ \E call \in SignInputs : SignMessage(call[1], call[2])

\* The verifyMessage calls of the two callers interleave.
VerifyInterleavedNext == \E c \in Callers : VerifyCallNext(c, InterleavedVerifyInputs)

\* The calls on a KeyStore instance over a Persistent Tier whose reads can
\* fail.
KeyStoreFaultNext ==
  \/ \E id \in IdInputs, priv \in PrivateKeys : CreateKey(id, priv)
  \/ \E key \in AddKeyInputs \ {NoKey} : AddKeyCall("key2", key)
  \/ \E id \in IdInputs : HasKey(id)
  \/ \E id \in IdInputs : GetKey(id)
  \/ Clear
  \/ \E id \in Ids : HasKeyStorageFails(id)
  \/ \E id \in Ids : GetKeyStorageFails(id)

\* The calls of caller c on a KeyStore instance, step by step.
CallNext(c) ==
  \/ \E id \in Ids, priv \in PrivateKeys : CreateKeyStart(c, id, priv)
  \/ \E id \in AddKeyIds, key \in AddKeyInputs \ {NoKey} :
       AddKeyStart(c, id, key)
  \/ \E id \in Ids : HasKeyStart(c, id)
  \/ \E id \in Ids : GetKeyStart(c, id)
  \/ \E first \in {"cache", "level"} : ClearStart(c, first)
  \/ PutLevelStep(c)
  \/ PutCacheStep(c)
  \/ GetCacheStep(c)
  \/ GetLevelStep(c)
  \/ GetFillStep(c)
  \/ ClearFirstStep(c)
  \/ ClearSecondStep(c)

\* The calls of the two callers interleave.
InterleavedNext == \E c \in Callers : CallNext(c)

\* One caller: a call is issued when the one before has returned.
OneAtATimeNext == CallNext("caller1")

\* A KeyStore instance and the module's functions called in any order, for
\* a few signatures.
TogetherNext ==
  \/ \E id \in {"key1", ""}, priv \in PrivateKeys : CreateKey(id, priv)
  \/ \E id \in {"key1", "", NullId}, key \in AddKeyInputs : AddKeyCall(id, key)
  \/ \E id \in {"key1", ""} : HasKey(id)
  \/ \E id \in {"key1", ""} : GetKey(id)
  \/ Clear
  \/ Close
  \/ VerifyCallNext("caller1", FewVerifyInputs)
  \/ \E call \in FewSignInputs : SignMessage(call[1], call[2])

Next == KeyStoreNext \/ VerifyNext

Spec == Init /\ [][Next]_vars

\* The KeyStore instance and the verification functions share no state:
\* the claims about one of them are checked on its calls alone.
SpecKeyStore == Init /\ [][KeyStoreNext]_vars

SpecKeyStoreFault == Init /\ [][KeyStoreFaultNext]_vars

SpecVerify == Init /\ [][VerifyNext]_vars

SpecVerifyInterleaved == Init /\ [][VerifyInterleavedNext]_vars

\* The calls on a KeyStore instance followed from await to await.
SpecInterleaved == Init /\ [][InterleavedNext]_vars

SpecOneAtATime == Init /\ [][OneAtATimeNext]_vars

SpecTogether == Init /\ [][TogetherNext]_vars


\* ============================================================== the claims

\* The entries of an LRU, whatever their order.
Entries(c) == {c[i] : i \in 1..Len(c)}

\* The cryptographic primitive accepts signature for publicKey and the raw
\* bytes of data.
CryptoAccepts(signature, publicKey, data) ==
  LET pub == FromHex(publicKey)
      sig == FromHex(signature)
  IN /\ ValidPublicBytes(pub)
     /\ SigParses(sig)
     /\ KeyVerify(pub, BufferFrom(data), sig)

VerifiedTrue(l) == l.op = "verifyMessage" /\ l.ret = "bool" /\ l.bool

\* A record is stored for id in one of the tiers.
RecordExists(id) ==
  StorageKey(id) \in DOMAIN level \/ LRUHas(lru, StorageKey(id))

\* Caller c makes a call of verifyMessage in this step.
Issued(c) == verifying[c].pc = "idle" /\ verifying'[c].pc = "got"

\* The verifyMessage of caller c returns or throws in this step.
ReturnsNow(c) == verifying[c].pc # "idle" /\ verifying'[c].pc = "idle"

\* The verifyMessage of caller c calls verifiedCache.put in this step.
PutsNow(c) == verifying[c].pc = "got" /\ verifying'[c].pc = "put"

\* C1: every entry of verifiedCache is a (signature, publicKey, data) triple
\* that the cryptographic verification accepts; an entry is stored only by a
\* verifyMessage call that missed and whose verification accepted its
\* arguments, that call then returning true, and a call that hits or does
\* not return true leaves the entries as they were.
C1_EntriesVerified ==
  \A e \in Entries(verifiedCache) : CryptoAccepts(e.k, e.v.publicKey, e.v.data)

C1_OnlyVerifiedMissStores ==
  /\ \A e \in Entries(verifiedCache') \ Entries(verifiedCache) :
       \E c \in Callers :
         /\ PutsNow(c)
         /\ ~verifying[c].found
         /\ CryptoAccepts(verifying[c].signature, verifying[c].publicKey,
                          verifying[c].data)
         /\ e = [k |-> verifying[c].signature,
                 v |-> [publicKey |-> verifying[c].publicKey,
                        data |-> verifying[c].data]]
  /\ \A c \in Callers :
       /\ (ReturnsNow(c) /\ verifying[c].pc = "put")
            => (VerifiedTrue(last') /\ ~last'.hit)
       /\ ReturnsNow(c) => verifiedCache' = verifiedCache
       /\ (ReturnsNow(c) /\ VerifiedTrue(last') /\ ~last'.hit)
            => verifying[c].pc = "put"

C1_CacheHoldsVerifiedTriples ==
  [](C1_EntriesVerified) /\ [][C1_OnlyVerifiedMissStores]_vars

\* C1 witness: an entry is cached, and the last call, on another signature,
\* failed and left it there.
C1_Witness ==
  /\ verifiedCache # <<>>
  /\ last.op = "verifyMessage" /\ last.ret = "bool" /\ ~last.bool /\ ~last.hit
  /\ ~LRUHas(verifiedCache, last.signature)

\* C2: when signature is cached from (signature, pubA, dataA), a call
\* verifyMessage(signature, pubB, dataA) with pubB # pubA finds that entry,
\* returns false and leaves the entry of signature as it was.
C2_OtherKeyStep ==
  \A c \in Callers :
    /\ (Issued(c) /\ LRUHas(verifiedCache, verifying'[c].signature))
         => /\ verifying'[c].found
            /\ verifying'[c].cached = LRUValue(verifiedCache, verifying'[c].signature)
            /\ Entries(verifiedCache') = Entries(verifiedCache)
    /\ (/\ ReturnsNow(c)
        /\ verifying[c].found
        /\ verifying[c].cached.publicKey # verifying[c].publicKey
        /\ verifying[c].cached.data = verifying[c].data)
         => /\ last'.ret = "bool" /\ ~last'.bool
            /\ verifiedCache' = verifiedCache

C2_CachedRejectsOtherKey == [][C2_OtherKeyStep]_vars

\* C2 witness: the last call hit an entry with its data and another public
\* key, and returned false.
C2_Witness ==
  /\ last.op = "verifyMessage" /\ last.hit /\ last.ret = "bool" /\ ~last.bool
  /\ LRUHas(verifiedCache, last.signature)
  /\ LRUValue(verifiedCache, last.signature).publicKey # last.publicKey
  /\ LRUValue(verifiedCache, last.signature).data = last.data

\* C3: verifyMessage called twice with identical arguments that verify
\* returns true both times, the second call being a cache hit that does not
\* call verifySignature: a call that repeats the arguments of the call that
\* returned before it, and returned true, the entry of the signature not
\* having been evicted, finds the entry and returns true from it. The calls
\* of two callers interleaving, the entry it finds can be one another call
\* has put meanwhile from another representation of the same key and data,
\* and the comparison with it throws or gives false.
C3_RepeatStep ==
  \A c \in Callers :
    (/\ Issued(c)
     /\ VerifiedTrue(last)
     /\ verifying'[c].signature = last.signature
     /\ verifying'[c].publicKey = last.publicKey
     /\ verifying'[c].data = last.data
     /\ LRUHas(verifiedCache, last.signature))
      => /\ verifying'[c].found
         /\ VerifyCached(verifying'[c].cached, last.publicKey, last.data)
              = Returned(TRUE)

C3_RepeatIsCached == [][C3_RepeatStep]_vars

\* C4: hasKey(id) returns true for a non-empty id for which createKey(id)
\* has completed with no clear() since.
C4_CreatedHasKey ==
  (last.op = "hasKey" /\ last.id \in Ids /\ created[last.id] # <<>>)
    => (last.ret = "bool" /\ last.bool)

\* C4 witness: hasKey(id) has returned true for a created id while the key
\* of another id was created too.
C4_Witness ==
  /\ last.op = "hasKey" /\ last.id \in Ids /\ created[last.id] # <<>>
  /\ last.ret = "bool" /\ last.bool
  /\ \E other \in Ids \ {last.id} : created[other] # <<>>

\* C5: getKey(id) after createKey(id) returns the key pair of the private
\* key createKey stored and returned, with its public key, and two
\* successive getKey(id) with no createKey(id) or clear() between them
\* return equal results.
C5_GetKeyReturnsCreated ==
  /\ (last.op = "getKey" /\ last.id \in Ids /\ created[last.id] # <<>>)
       => /\ last.ret = "keys"
          /\ last.keys.private = created[last.id]
          /\ last.keys.public = PublicOf(created[last.id])
  /\ \A id \in Ids :
       Len(gets[id]) = 2
         => gets[id][1].ret = gets[id][2].ret /\ gets[id][1].keys = gets[id][2].keys

\* C5 amended: getKey(id) returns the key pair of the private key stored
\* last under 'private_' + id, by createKey(id) or by addKey, with its public
\* key, and two successive getKey(id) with no createKey(id), addKey or
\* clear() that changed the stored key between them return equal results.
C5_GetKeyReturnsStored ==
  /\ (last.op = "getKey" /\ last.id \in Ids /\ written[last.id] # <<>>)
       => /\ last.ret = "keys"
          /\ last.keys.private = written[last.id]
          /\ last.keys.public = PublicOf(written[last.id])
  /\ \A id \in Ids :
       (Len(gets[id]) = 2 /\ gets[id][1].written = gets[id][2].written)
         => gets[id][1].ret = gets[id][2].ret /\ gets[id][1].keys = gets[id][2].keys

\* C5 witness: getKey(id) has returned twice the key addKey stored over the
\* one createKey(id) had stored.
C5_Witness ==
  /\ last.op = "getKey" /\ last.id \in Ids /\ created[last.id] # <<>>
  /\ written[last.id] # created[last.id]
  /\ Len(gets[last.id]) = 2
  /\ gets[last.id][1].written = gets[last.id][2].written
  /\ last.ret = "keys" /\ last.keys.private = written[last.id]

\* C6: after clear(), hasKey(id) returns false and getKey(id) undefined for
\* an id created before the clear and not created again, and clear leaves
\* both tiers empty.
C6_ClearedIsAbsent ==
  /\ (last.op = "hasKey" /\ last.id \in everCreated /\ created[last.id] = <<>>)
       => (last.ret = "bool" /\ ~last.bool)
  /\ (last.op = "getKey" /\ last.id \in everCreated /\ created[last.id] = <<>>)
       => last.ret = "undefined"
  /\ last.op = "clear" => (lru = <<>> /\ DOMAIN level = {})

\* C6 amended: after clear(), hasKey(id) returns false and getKey(id)
\* undefined for an id created before the clear for which neither createKey
\* nor addKey has stored a key since, and clear leaves both tiers empty.
C6_ClearedIsAbsentUntilStored ==
  /\ (last.op = "hasKey" /\ last.id \in everCreated /\ written[last.id] = <<>>)
       => (last.ret = "bool" /\ ~last.bool)
  /\ (last.op = "getKey" /\ last.id \in everCreated /\ written[last.id] = <<>>)
       => last.ret = "undefined"
  /\ last.op = "clear" => (lru = <<>> /\ DOMAIN level = {})

\* C6 witness: hasKey(id) has returned false for an id that was created and
\* then cleared, while addKey has stored a key for another id again.
C6_Witness ==
  /\ last.op = "hasKey" /\ last.id \in everCreated /\ written[last.id] = <<>>
  /\ last.ret = "bool" /\ ~last.bool /\ ~last.fault
  /\ \E other \in Ids : written[other] # <<>> /\ created[other] = <<>>

\* C7: the records are addressed by 'private_' + id, one for an id;
\* createKey(id) for an id that has a key overwrites the record in both
\* tiers, and getKey(id) then returns the new key pair, not the earlier one.
C7_CreateOverwrites ==
  /\ DOMAIN level \subseteq {StorageKey(id) : id \in IdInputs}
  /\ \A e \in Entries(lru) : e.k \in {StorageKey(id) : id \in IdInputs}
  /\ (last.op = "createKey" /\ last.ret = "keys")
       => /\ level[StorageKey(last.id)] = Marshal(last.keys)
          /\ \A e \in Entries(lru) :
               e.k = StorageKey(last.id) => e.v = Marshal(last.keys)
  /\ (last.op = "getKey" /\ last.id \in Ids /\ replaced[last.id] # <<>>)
       => /\ last.ret = "keys"
          /\ last.keys = Unmarshal(created[last.id])
          /\ replaced[last.id] # created[last.id]
               => last.keys # Unmarshal(replaced[last.id])

\* C7 amended: the same, getKey(id) returning the new key pair for as long
\* as addKey has not stored another key under 'private_' + id.
C7_CreateOverwritesUntilAdded ==
  /\ DOMAIN level \subseteq {StorageKey(id) : id \in IdInputs}
  /\ \A e \in Entries(lru) : e.k \in {StorageKey(id) : id \in IdInputs}
  /\ (last.op = "createKey" /\ last.ret = "keys")
       => /\ level[StorageKey(last.id)] = Marshal(last.keys)
          /\ \A e \in Entries(lru) :
               e.k = StorageKey(last.id) => e.v = Marshal(last.keys)
  /\ (/\ last.op = "getKey" /\ last.id \in Ids /\ replaced[last.id] # <<>>
      /\ written[last.id] = created[last.id])
       => /\ last.ret = "keys"
          /\ last.keys = Unmarshal(created[last.id])
          /\ replaced[last.id] # created[last.id]
               => last.keys # Unmarshal(replaced[last.id])

\* C7 witness: getKey(id) has returned the new key of an id whose earlier,
\* different key createKey overwrote, a key being stored under
\* 'private_undefined' as well.
C7_Witness ==
  /\ last.op = "getKey" /\ last.id \in Ids
  /\ replaced[last.id] # <<>> /\ replaced[last.id] # created[last.id]
  /\ written[last.id] = created[last.id]
  /\ last.keys = Unmarshal(created[last.id])
  /\ StorageKey(UndefinedId) \in DOMAIN level

\* C8: hasKey(id) returns false for a non-empty id that was never created,
\* whatever keys were created for other ids; it returns true exactly when a
\* record is stored under 'private_' + id.
C8_HasKeyIffRecord ==
  (last.op = "hasKey" /\ last.id \in Ids)
    => /\ last.ret = "bool"
       /\ last.bool <=> RecordExists(last.id)
       /\ last.id \notin everCreated => ~last.bool

\* C8 amended: hasKey(id) returns false for a non-empty id under whose key
\* 'private_' + id neither createKey nor addKey has stored a key since the
\* last clear(), whatever keys were stored for other ids; it returns true
\* exactly when a record is stored under 'private_' + id, which for the id
\* 'undefined' is the key addKey writes when it is called without an id.
C8_HasKeyIffStored ==
  (last.op = "hasKey" /\ ~FalsyId(last.id))
    => /\ last.ret = "bool"
       /\ last.bool <=> RecordExists(last.id)
       /\ written[IdText(last.id)] = <<>> => ~last.bool

\* C8 witness: hasKey(id) has returned false for an id no key was ever stored
\* for, while addKey has stored the key of another id.
C8_Witness ==
  /\ last.op = "hasKey" /\ last.id \in Ids /\ last.id \notin everCreated
  /\ written[last.id] = <<>>
  /\ last.ret = "bool" /\ ~last.bool
  /\ \E other \in Ids : written[other] # <<>> /\ created[other] = <<>>

\* C9: getKey(id) for a non-empty id with no stored record returns
\* undefined, does not throw, and leaves both tiers as they were.
C9_MissingStep ==
  (last'.op = "getKey" /\ last'.id \in Ids /\ ~RecordExists(last'.id))
    => /\ last'.ret = "undefined"
       /\ lru' = lru
       /\ level' = level

C9_GetKeyMissingIsUndefined == [][C9_MissingStep]_vars

\* C9 witness: getKey(id) has returned undefined, no read failing, for
\* an id without a record while another id has one.
C9_Witness ==
  /\ last.op = "getKey" /\ last.id \in Ids /\ ~RecordExists(last.id)
  /\ last.ret = "undefined" /\ ~last.fault
  /\ lru # <<>>

\* C10: when the storage read fails in the call, hasKey(id) returns false
\* and getKey(id) returns undefined; neither throws.
C10_ReadFailureIsAbsence ==
  last.fault
    => /\ last.op = "hasKey" => (last.ret = "bool" /\ ~last.bool)
       /\ last.op = "getKey" => last.ret = "undefined"
       /\ last.ret # "throw"

\* C10 witness: the read failed in hasKey(id) for an id whose record is
\* stored, and hasKey returned false.
C10_Witness ==
  /\ last.fault /\ last.op = "hasKey" /\ RecordExists(last.id)
  /\ last.ret = "bool" /\ ~last.bool

\* The message of the error each operation throws for a missing id.
IdNeededMessage(op) ==
  CASE op = "createKey" -> "id needed to create a key"
    [] op = "getKey" -> "id needed to get a key"
    [] op = "hasKey" -> "id needed to check a key"
    [] OTHER -> ""

\* C11: createKey, getKey and hasKey called with an id that is undefined,
\* null or '' throw their "id needed" error; the call reads neither tier
\* (no read failure can occur in it) and leaves both tiers as they were.
C11_MissingIdStep ==
  (last'.op \in {"createKey", "getKey", "hasKey"}
     /\ last'.id \in {"", UndefinedId, NullId})
    => /\ last'.ret = "throw"
       /\ last'.msg = IdNeededMessage(last'.op)
       /\ ~last'.fault
       /\ lru' = lru
       /\ level' = level

C11_MissingIdFails == [][C11_MissingIdStep]_vars

\* C11 witness: createKey('') has thrown while a record is stored in both
\* tiers.
C11_Witness ==
  /\ last.op = "createKey" /\ last.id = "" /\ last.ret = "throw"
  /\ lru # <<>> /\ DOMAIN level # {}

\* signature is what signMessage returns for one of the keys and data, and
\* publicKey what getPublic returns for that key.
SignedBy(signature, publicKey, data) ==
  \E priv \in PrivateKeys :
    /\ SignMessageResult(Unmarshal(priv), data).out = Str(signature)
    /\ GetPublicResult(Unmarshal(priv), "hex").out = Str(publicKey)

\* C12: for every key and every data that is not empty, verifyMessage called
\* with the signature signMessage(key, data) returns, with getPublic(key) and
\* with the same data returns true, whatever verifiedCache holds (on a miss
\* the result is that of verifySignature).
C12_RoundTrip ==
  (last.op = "verifyMessage" /\ ~FalsyData(last.data)
     /\ SignedBy(last.signature, last.publicKey, last.data))
    => VerifiedTrue(last)

\* verifySignature ran in the last call, on arguments that are all present.
VerifySignatureRan(l) ==
  /\ l.op = "verifyMessage" /\ ~l.hit
  /\ l.signature # <<>> /\ l.publicKey # <<>> /\ ~FalsyData(l.data)

\* The bytes signature decodes to are the signature of the bytes of data by
\* the key whose public key publicKey decodes to.
GenuineBytes(signature, publicKey, data) ==
  \E priv \in PrivateKeys :
    /\ FromHex(signature) = KeySign(priv, BufferFrom(data))
    /\ FromHex(publicKey) = PublicOf(priv)

\* signature is the text signMessage returns for data and the key whose
\* public key publicKey decodes to.
GenuineText(signature, publicKey, data) ==
  \E priv \in PrivateKeys :
    /\ SignMessageResult(Unmarshal(priv), data).out = Str(signature)
    /\ FromHex(publicKey) = PublicOf(priv)

\* C13: verifySignature returns false, and does not throw, for every
\* signature that is not the one signMessage returned for the data and the
\* key of publicKey: a malformed or tampered signature, tampered data, a
\* substituted public key.
C13_NotSignedIsFalse ==
  (VerifySignatureRan(last)
     /\ ~GenuineText(last.signature, last.publicKey, last.data))
    => (last.ret = "bool" /\ ~last.bool)

\* The part of C13 that holds: verifySignature never throws on arguments that
\* are present, and returns false whenever the bytes Buffer.from(signature,
\* 'hex') decodes are not the signature of the bytes of data by the key of
\* publicKey: what the primitive cannot parse or does not accept gives false.
C13_WrongBytesIsFalse ==
  VerifySignatureRan(last)
    => /\ last.ret = "bool"
       /\ ~GenuineBytes(last.signature, last.publicKey, last.data) => ~last.bool

\* verifySignature has returned false for the signature of one key checked
\* against the public key of another.
C13_Witness ==
  /\ VerifySignatureRan(last) /\ last.ret = "bool" /\ ~last.bool
  /\ last.signature = ToHex(KeySign(<<1>>, <<97>>))
  /\ last.publicKey = ToHex(PublicOf(<<2>>))
  /\ last.data = Buf(<<97>>)

\* What getPublic returned is the hex text of the public key of keys.
IsHexOf(l) ==
  /\ l.ret = "value" /\ l.out.t = "string"
  /\ l.out.s = ToHex(l.keys.public)
  /\ FromHex(l.out.s) = l.keys.public

\* What getPublic returned is a Buffer of the bytes of the public key of keys.
IsBufferOf(l) == l.ret = "value" /\ l.out = Buf(l.keys.public)

UnsupportedFormat(l) ==
  l.ret = "throw" /\ l.msg = "Supported formats are hex and buffer"

\* C14 as stated: getPublic returns the public key bytes as hex text for the
\* format hex (and when no format is given) and as a Buffer for the format
\* buffer, and throws for every other format value that is given.
C14_EveryOtherFormatFails ==
  (last.op = "getPublic" /\ last.keys # NoKeys)
    => CASE last.format \in {"hex", UndefinedFormat} -> IsHexOf(last)
         [] last.format = "buffer" -> IsBufferOf(last)
         [] OTHER -> UnsupportedFormat(last)

\* C14 amended: getPublic returns the public key bytes as hex text for the
\* format hex and for a format that is falsy (none given, or ''), as a Buffer
\* of the same bytes for the format buffer, and throws for every other format.
C14_FormatsOfGetPublic ==
  (last.op = "getPublic" /\ last.keys # NoKeys)
    => CASE last.format \in {"hex", UndefinedFormat, ""} -> IsHexOf(last)
         [] last.format = "buffer" -> IsBufferOf(last)
         [] OTHER -> UnsupportedFormat(last)

\* C14 witness: getPublic(keys, { format: 'foo' }) has thrown for the key
\* handle of a key that is stored.
C14_Witness ==
  /\ last.op = "getPublic" /\ last.format = "foo" /\ UnsupportedFormat(last)
  /\ \E id \in Ids : StorageKey(id) \in DOMAIN level
                       /\ level[StorageKey(id)] = Marshal(last.keys)

\* C17: whenever verifyMessage returns true, on a miss or on a hit, the
\* cryptographic verification accepts the signature for the public key and
\* the raw bytes of the data of that call.
C17_TrueIsCryptoAccepted ==
  VerifiedTrue(last) => CryptoAccepts(last.signature, last.publicKey, last.data)

\* C18: on a cache hit with data that is a string or a Buffer, verifyMessage
\* returns a boolean and does not throw, whatever the representation of the
\* cached data; the boolean is true exactly when the publicKey of the call is
\* the cached one and the data of the call has the bytes of the cached data.
C18_HitReturnsBoolean ==
  (last.op = "verifyMessage" /\ last.hit /\ last.data.t \in {"string", "buffer"})
    => LET cached == LRUValue(verifiedCache, last.signature)
       IN /\ last.ret = "bool"
          /\ last.bool <=> (/\ cached.publicKey = last.publicKey
                            /\ BufferFrom(cached.data) = BufferFrom(last.data))

\* Some caller is between the two steps of a put of the key k.
PutHalfDone(k) == \E c \in Callers : calls[c].pc = "put-cache" /\ calls[c].key = k

\* Some caller is between the two steps of a clear that has emptied the
\* Persistent Tier and not yet the Cache Tier.
ClearHalfDone ==
  \E c \in Callers : calls[c].pc = "clear-2" /\ calls[c].first = "level"

\* C15: in every reachable state of the composed storage, the states between
\* the two steps of a put included, every key the Cache Tier holds is in the
\* Persistent Tier with the same value.
C15_CacheWithinPersistent ==
  \A e \in Entries(lru) : e.k \in DOMAIN level /\ level[e.k] = e.v

\* C15 amended: when the calls run one at a time, every key the Cache Tier
\* holds is in the Persistent Tier, except between the two steps of a clear
\* that empties the Persistent Tier first, and has the same value there,
\* except for the key of a put that is between its two steps.
C15_CacheWithinPersistentOneAtATime ==
  \A e \in Entries(lru) :
    /\ ~ClearHalfDone => e.k \in DOMAIN level
    /\ (e.k \in DOMAIN level /\ ~PutHalfDone(e.k)) => level[e.k] = e.v

\* C15 witness: a put is between its two steps while the Cache Tier holds
\* another key, which the Persistent Tier has with the same value.
C15_Witness ==
  \E c \in Callers :
    /\ calls[c].pc = "put-cache"
    /\ \E e \in Entries(lru) :
         e.k # calls[c].key /\ e.k \in DOMAIN level /\ level[e.k] = e.v

\* No call is in flight.
Quiescent == \A c \in Callers : ~InFlight(c)

\* The callers c and d have each completed a createKey(id), and the two
\* calls overlapped.
ConcurrentCreates(c, d, id) ==
  /\ c # d
  /\ calls[c].op = "createKey" /\ calls[c].id = id /\ calls[c].pc = "done"
  /\ calls[d].op = "createKey" /\ calls[d].id = id /\ calls[d].pc = "done"
  /\ (d \in calls[c].conc \/ c \in calls[d].conc)

\* C16: once two concurrent createKey calls for the same id have completed,
\* the Persistent Tier holds for the id the private key of one of the two
\* pairs and the Cache Tier holds that same key, so that a getKey(id) issued
\* then returns it.
C16_LastWriterWins ==
  \A c, d \in Callers, id \in Ids :
    ConcurrentCreates(c, d, id)
      => /\ StorageKey(id) \in DOMAIN level
         /\ level[StorageKey(id)] \in {calls[c].priv, calls[d].priv}
         /\ LRUHas(lru, StorageKey(id))
         /\ LRUValue(lru, StorageKey(id)) = level[StorageKey(id)]

\* C16 amended: once two concurrent createKey calls for the same id have
\* completed, each tier holds one record for the id, and it is the private
\* key of one of the two pairs; the two tiers need not hold the same one.
C16_EachTierHoldsOneOfTheTwo ==
  \A c, d \in Callers, id \in Ids :
    ConcurrentCreates(c, d, id)
      => /\ StorageKey(id) \in DOMAIN level
         /\ level[StorageKey(id)] \in {calls[c].priv, calls[d].priv}
         /\ LRUHas(lru, StorageKey(id))
         /\ LRUValue(lru, StorageKey(id)) \in {calls[c].priv, calls[d].priv}
         /\ Cardinality({i \in 1..Len(lru) : lru[i].k = StorageKey(id)}) = 1

\* C16 witness: two concurrent createKey calls for the same id have
\* completed with different keys, and the Cache Tier holds the one and the
\* Persistent Tier the other.
C16_Witness ==
  \E c, d \in Callers, id \in Ids :
    /\ ConcurrentCreates(c, d, id)
    /\ calls[c].priv # calls[d].priv
    /\ level[StorageKey(id)] = calls[c].priv
    /\ LRUValue(lru, StorageKey(id)) = calls[d].priv

\* The ids a completed clear() has removed: their createKey had completed
\* when the clear was issued, and no createKey for them has been in flight
\* or issued since.
ClearedIds ==
  UNION {calls[c].snap : c \in {d \in Callers : calls[d].op = "clear"
                                                  /\ calls[d].pc = "done"}}

\* C19: when clear() and every getKey and hasKey issued while it ran have
\* completed, no record is left in either tier for an id created before the
\* clear, so that hasKey(id) is false and the Cache Tier holds no entry for it
\* that the Persistent Tier lacks.
C19_ClearedStaysAbsent ==
  Quiescent => \A id \in ClearedIds : ~RecordExists(id)

\* C19 amended: a read in flight while clear() runs does not put a cleared key
\* back in the Persistent Tier: once clear() has completed, the Persistent
\* Tier holds no record for an id created before the clear (the Cache Tier
\* can hold one again).
C19_ClearedAbsentFromPersistent ==
  \A id \in ClearedIds : StorageKey(id) \notin DOMAIN level

\* C19 witness: clear() and a hasKey(id) that overlapped it have completed,
\* hasKey having found the key created before the clear, and the Cache Tier
\* holds the key again.
C19_Witness ==
  /\ Quiescent
  /\ \E c, d \in Callers, id \in ClearedIds :
       /\ calls[c].op = "clear" /\ calls[c].pc = "done" /\ id \in calls[c].snap
       /\ calls[d].op = "hasKey" /\ calls[d].id = id /\ calls[d].pc = "done"
       /\ calls[d].found
       /\ (d \in calls[c].conc \/ c \in calls[d].conc)
       /\ LRUHas(lru, StorageKey(id))

\* C20: createKey, getKey, hasKey, clear and close of a KeyStore, as every
\* step that is not one of a verifyMessage call, leave verifiedCache as it
\* was, and the steps of verifyMessage and signMessage leave the two tiers of
\* the storage as they were.
C20_IndependentStep ==
  /\ (last' # last
        /\ last'.op \in {"createKey", "addKey", "getKey", "hasKey", "clear", "close"})
       => verifiedCache' = verifiedCache
  /\ verifying' = verifying => verifiedCache' = verifiedCache
  /\ (verifying' # verifying \/ (last' # last /\ last'.op = "signMessage"))
       => (lru' = lru /\ level' = level)

C20_CacheAndStorageIndependent == [][C20_IndependentStep]_vars

\* C20 witness: clear() has emptied the storage while verifiedCache holds an
\* entry.
C20_Witness ==
  /\ last.op = "clear" /\ "key1" \in everCreated
  /\ lru = <<>> /\ DOMAIN level = {}
  /\ verifiedCache # <<>>

====
